---- MODULE Spec2Model ----
(***************************************************************************)
(* Sidebar cache of Tree Style Tab (webextensions/sidebar/sidebar-cache.js) *)
(* as a state machine: the per-tab session store, the owner handle, the    *)
(* debounced rebuild, the validating read and the restoration.             *)
(*                                                                         *)
(* Strings are sequences of one-character strings, so that the string      *)
(* operations of the source (join, split, trim, replace) are computed.     *)
(***************************************************************************)
EXTENDS Integers, Sequences, FiniteSets, TLC

\* ------------------------------------------------------------- bounds
MaxTabId == 4       \* tab ids 1..MaxTabId are handed out, never reused
MaxInitTabs == 3    \* the window starts with 0..MaxInitTabs tabs
MaxEvents == 2      \* events of the environment in one run
MaxUpd == 1         \* updateCachedTabbar invocations suspended at one time
MaxTimers == 2      \* pending timeouts of one kind
MaxReads == 1       \* calls of getEffectiveWindowCache in one run
MaxRestores == 2    \* calls of restoreTabsFromCache in one run
MaxStruct == 2      \* tabs of a tree structure
MaxParent == 1      \* parents of a tree structure are -1..MaxParent
MaxWindows == 2     \* browser windows the background page knows, ids 1..MaxWindows
MaxBgTabs == 2      \* tabs of a window of the background page
MaxSaves == 3       \* calls of saveTreeStructure in one run
MaxLoads == 1       \* calls of loadTreeStructure in one run

\* ---------------------------------------------------- program constants
kSIDEBAR_CONTENTS_VERSION == 2

\* ------------------------------------------------------------- strings
NL == "\n"
SP == " "
IsSpace(c) == c = NL \/ c = SP

\* The absent signature (null / undefined); never a string of the program.
NullSig == << "<null>" >>

Digits == << "0", "1", "2", "3", "4", "5", "6", "7", "8", "9" >>

\* String(n) for n >= 0, in decimal.
RECURSIVE NatToString(_)
NatToString(n) ==
  IF n < 10 THEN << Digits[n + 1] >>
  ELSE NatToString(n \div 10) \o << Digits[(n % 10) + 1] >>

\* String(n) for an integer.
IntToString(n) == IF n < 0 THEN << "-" >> \o NatToString(0 - n) ELSE NatToString(n)

\* Array.prototype.join
RECURSIVE Join(_, _)
Join(parts, sep) ==
  IF Len(parts) = 0 THEN << >>
  ELSE IF Len(parts) = 1 THEN parts[1]
  ELSE parts[1] \o sep \o Join(Tail(parts), sep)

\* String.prototype.split with a one-character separator: "" gives [""].
RECURSIVE SplitAcc(_, _, _)
SplitAcc(s, c, cur) ==
  IF Len(s) = 0 THEN << cur >>
  ELSE IF Head(s) = c THEN << cur >> \o SplitAcc(Tail(s), c, << >>)
  ELSE SplitAcc(Tail(s), c, Append(cur, Head(s)))

Split(s, c) == SplitAcc(s, c, << >>)

RECURSIVE TrimLeft(_)
TrimLeft(s) == IF Len(s) > 0 /\ IsSpace(Head(s)) THEN TrimLeft(Tail(s)) ELSE s

RECURSIVE TrimRight(_)
TrimRight(s) ==
  IF Len(s) > 0 /\ IsSpace(s[Len(s)]) THEN TrimRight(SubSeq(s, 1, Len(s) - 1)) ELSE s

\* String.prototype.trim
Trim(s) == TrimRight(TrimLeft(s))

IsPrefixOf(p, s) == Len(p) <= Len(s) /\ SubSeq(s, 1, Len(p)) = p

\* String.prototype.indexOf, 1-based; 0 when pat does not occur.
IndexOf(s, pat) ==
  LET hits == { i \in 1..(Len(s) - Len(pat) + 1) : SubSeq(s, i, i + Len(pat) - 1) = pat }
  IN  IF hits = {} THEN 0 ELSE CHOOSE i \in hits : \A j \in hits : i <= j

\* s.replace(pat, ''): the first occurrence of the string pat is removed.
ReplaceFirst(s, pat) ==
  LET i == IndexOf(s, pat)
  IN  IF i = 0 THEN s
      ELSE SubSeq(s, 1, i - 1) \o SubSeq(s, i + Len(pat), Len(s))

\* parts.filter(part => !!part)
SelectNonEmpty(parts) == SelectSeq(parts, LAMBDA p : Len(p) > 0)

\* JavaScript truthiness of a string-or-null value.
Truthy(s) == s # NullSig /\ Len(s) > 0

\* ------------------------------------------- signatures (common/cache.js)
Range(s) == { s[i] : i \in 1..Len(s) }

\* The identity record of a tab as it appears in a signature: one line.
Ident(t) == << "t" >> \o NatToString(t)

Idents(ts) == [ i \in 1..Len(ts) |-> Ident(ts[i]) ]

\* Cache.getWindowSignature: the window's identity records in tab order, one per line.
WindowSignature(ts) == Join(Idents(ts), << NL >>)

\* The serialized markup of the tabs container: one element per tab, in order.
\* An element is modelled by the identity it carries.
SerializedContents(ts) == Idents(ts)

\* Cache.signatureFromTabsCache: the signature implied by cached markup.
signatureFromTabsCache(contents) == Join(contents, << NL >>)

\* Cache.trimSignature: the signature without its first n records.
trimSignature(sig, n) ==
  IF n <= 0 THEN sig
  ELSE LET parts == Split(sig, NL)
       IN  Join(SubSeq(parts, n + 1, Len(parts)), << NL >>)

\* Cache.trimTabsCache: the markup without its first n elements.
trimTabsCache(contents, n) ==
  IF n <= 0 THEN contents ELSE SubSeq(contents, n + 1, Len(contents))

\* Cache.matcheSignatures: both sides present, and cached an exact or prefix match
\* of actual (trailing whitespace of the cached side tolerated).
matcheSignatures(actual, cached) ==
  /\ Truthy(actual)
  /\ Truthy(cached)
  /\ IsPrefixOf(TrimRight(cached), actual)

\* ------------------------------------------------------------- values
\* cache === null
NullCache == [ isNull |-> TRUE ]

\* The three keys stored under the owner tab.
EmptyEntry == [ snap |-> NullCache, tabsDirty |-> FALSE, collapsedDirty |-> FALSE ]

TabIds == 1..MaxTabId

\* The value updateCachedTabbar stores (style and indent carry no decision).
Snapshot(version, contents, pinnedTabsCount, signature) ==
  [ version |-> version, contents |-> contents,
    pinnedTabsCount |-> pinnedTabsCount, signature |-> signature ]

\* Tabs.getLastTab(): 0 stands for no tab (undefined).
LastTab(ts) == IF Len(ts) = 0 THEN 0 ELSE ts[Len(ts)]

RemoveAt(s, i) == SubSeq(s, 1, i - 1) \o SubSeq(s, i + 1, Len(s))

\* -------------------------------------------------------------- state
VARIABLES
  tabs,                  \* the window's tabs, in order (tab ids)
  npinned,               \* the first npinned tabs are pinned
  nextId,                \* the id the next created tab gets
  creating,              \* tabs whose creation is not resolved (Tabs.hasCreatingTab)
  allTabsRestored,       \* container.allTabsRestored
  useCachedTree,         \* configs.useCachedTree
  animation,             \* configs.animation
  mTracking,
  mLastWindowCacheOwner, \* a tab id; 0 stands for undefined
  store,                 \* browser.sessions tab values: tab id -> the three keys
  nWaiting,              \* pending timeouts that will call updateCachedTabbar
  waiting,               \* updateCachedTabbar.waiting is set
  dirtyTimers,           \* pending timeouts of markWindowCacheDirty: their keys
  dirtyHandle,           \* markWindowCacheDirty.timeout is set
  deferred,              \* queued listener continuations that will call reserveToUpdateCachedTabbar
  rsvSusp,               \* reserveToUpdateCachedTabbar calls suspended at waitUntilAllTabsAreCreated
  upd,                   \* suspended updateCachedTabbar invocations
  rd,                    \* the getEffectiveWindowCache call in progress
  ret,                   \* what the last getEffectiveWindowCache call produced
  hist,                  \* history of the run (counters the code does not keep)
  rs,                    \* the restoreTabsFromCache call in progress, and what the last one did
  container,             \* the tabs container attached for the window: "none", "live" or "cached"
  domParents,            \* the parents of the tabs in the container, in order
  dispatched,            \* onRestored.dispatch() calls
  bg                     \* the background page: its windows, gTreeStructures, configs.treeStructure

vars == << tabs, npinned, nextId, creating, allTabsRestored, useCachedTree, animation,
           mTracking, mLastWindowCacheOwner, store, nWaiting, waiting, dirtyTimers,
           dirtyHandle, deferred, rsvSusp, upd, rd, ret, hist,
           rs, container, domParents, dispatched, bg >>

envVars == << tabs, npinned, nextId, creating, allTabsRestored, useCachedTree, animation >>
dirtyVars == << dirtyTimers, dirtyHandle >>
readVars == << rd, ret >>
restoreVars == << rs, container, domParents, dispatched >>
cacheVars == << envVars, mTracking, mLastWindowCacheOwner, store, nWaiting, waiting,
                dirtyVars, deferred, rsvSusp, upd, readVars, hist >>

\* The parent columns of tree structures of up to MaxStruct tabs.
Structs == UNION { [ 1..n -> -1..MaxParent ] : n \in 0..MaxStruct }

IdleRestore == [ pc |-> "idle", calls |-> 0, result |-> "none", compared |-> FALSE ]

IdleRead == [ pc |-> "idle" ]
NoResult == [ kind |-> "none" ]

EmptyStore == [ t \in TabIds |-> EmptyEntry ]

InitTabs(n) == [ i \in 1..n |-> i ]

\* What a previous session of the sidebar (of this or of an earlier release) left
\* under the window's last tab: nothing, or a snapshot of the window as it is.
InitStores(ts) ==
  { EmptyStore } \cup
  IF Len(ts) = 0 THEN { }
  ELSE { [ EmptyStore EXCEPT ![LastTab(ts)] =
             [ snap |-> Snapshot(v, SerializedContents(ts), 0, WindowSignature(ts)),
               tabsDirty |-> d, collapsedDirty |-> d ] ] :
           v \in { kSIDEBAR_CONTENTS_VERSION, kSIDEBAR_CONTENTS_VERSION - 1 },
           d \in BOOLEAN }

\* The keys of the two dirty flags.
DirtyKeys == { "tabsDirty", "collapsedDirty" }

\* dirtyOpen: the keys with a burst of markWindowCacheDirty calls under way;
\* dirtyBursts, dirtyWrites: per key, the bursts begun and the writes of true made;
\* dirtyStale: a write of a dirty flag was dropped for want of a living owner.
\* The windows of the background page.
Windows == 1..MaxWindows

\* No value (undefined): of gTreeStructures[id], of a lookup, of a structure applied.
None == [ isNone |-> TRUE ]

\* A window without a tabs container.
NoWindow == [ open |-> FALSE, tabs |-> << >>, parents |-> << >> ]

\* The background page after loading: no window tracked, gTreeStructures = {},
\* configs.treeStructure an empty object.
InitBg ==
  [ wins |-> [ w \in Windows |-> NoWindow ],
    nextWindow |-> 1,
    gTreeStructures |-> [ w \in Windows |-> None ],
    treeStructure |-> { },
    saving |-> { },
    saves |-> 0,
    load |-> [ pc |-> "idle", calls |-> 0, structures |-> { } ],
    applied |-> [ w \in Windows |-> None ] ]

InitHist ==
  [ events |-> 0, reads |-> 0, bursts |-> 0, writes |-> 0, skipped |-> FALSE,
    scen |-> "none",
    dirtyOpen |-> { }, dirtyBursts |-> [ k \in DirtyKeys |-> 0 ],
    dirtyWrites |-> [ k \in DirtyKeys |-> 0 ], dirtyStale |-> FALSE ]

Init ==
  /\ \E n \in 0..MaxInitTabs :
       /\ tabs = InitTabs(n)
       /\ nextId = n + 1
       /\ store \in InitStores(InitTabs(n))
  /\ npinned = 0
  /\ creating = 0
  /\ allTabsRestored = FALSE
  /\ useCachedTree = TRUE
  /\ animation \in BOOLEAN
  /\ mTracking = FALSE
  /\ mLastWindowCacheOwner = 0
  /\ nWaiting = 0
  /\ waiting = FALSE
  /\ dirtyTimers = << >>
  /\ dirtyHandle = FALSE
  /\ deferred = 0
  /\ rsvSusp = 0
  /\ upd = << >>
  /\ rd = IdleRead
  /\ ret = NoResult
  /\ hist = InitHist
  /\ rs = IdleRestore
  /\ container = "live"
  /\ domParents = << >>
  /\ dispatched = 0
  /\ bg = InitBg

\* ------------------------------------------------------ the store adapter
OwnerPresent(owner, ts) == owner # 0

\* !mLastWindowCacheOwner || !Tabs.getTabById(mLastWindowCacheOwner), negated
OwnerAlive(owner, ts) == owner # 0 /\ owner \in Range(ts)

\* updateWindowCache(key, value): nothing without a living owner.
updateWindowCache(st, owner, ts, key, value) ==
  IF ~OwnerAlive(owner, ts) THEN st
  ELSE [ st EXCEPT ![owner][key] = value ]

\* clearWindowCache(): the three keys are removed.
clearWindowCache(st, owner, ts) ==
  LET s1 == updateWindowCache(st, owner, ts, "snap", NullCache)
      s2 == updateWindowCache(s1, owner, ts, "tabsDirty", FALSE)
  IN  updateWindowCache(s2, owner, ts, "collapsedDirty", FALSE)

\* getWindowCache(key) for the three keys, as served for owner tab `key`.
getWindowCache(st, owner) == IF owner = 0 THEN EmptyEntry ELSE st[owner]

\* The values a closed tab carried are gone with it.
DropTab(st, t) == [ st EXCEPT ![t] = EmptyEntry ]

\* --------------------------------------------- the debounced scheduler
\* The part of the state reserveToUpdateCachedTabbar works on.
Sched(h) ==
  [ store |-> store, nWaiting |-> nWaiting, waiting |-> waiting,
    rsvSusp |-> rsvSusp, hist |-> h ]

SetSched(s) ==
  /\ store' = s.store
  /\ nWaiting' = s.nWaiting
  /\ waiting' = s.waiting
  /\ rsvSusp' = s.rsvSusp
  /\ hist' = s.hist

\* if (updateCachedTabbar.waiting) clearTimeout(...); updateCachedTabbar.waiting = setTimeout(...)
ArmTimer(s) ==
  [ s EXCEPT !.nWaiting = (IF s.waiting /\ @ > 0 THEN @ - 1 ELSE @) + 1,
             !.waiting = TRUE ]

\* reserveToUpdateCachedTabbar from the container check on: clear, then (re)arm.
ReserveContinue(s, ts) ==
  IF allTabsRestored THEN s
  ELSE ArmTimer([ s EXCEPT !.store = clearWindowCache(s.store, mLastWindowCacheOwner, ts),
                            !.hist.scen = "none" ])

RECURSIVE ReserveContinueAll(_, _, _)
ReserveContinueAll(s, ts, k) ==
  IF k = 0 THEN s ELSE ReserveContinueAll(ReserveContinue(s, ts), ts, k - 1)

\* A call is the first of a burst when no timer of an earlier call is pending and
\* no earlier call is still waiting to arm one.
CountBurst(s) ==
  IF s.nWaiting = 0 /\ s.rsvSusp = 0
  THEN [ s EXCEPT !.hist.bursts = @ + 1 ] ELSE s

\* reserveToUpdateCachedTabbar()
reserveToUpdateCachedTabbar(s, ts) ==
  IF ~mTracking \/ ~useCachedTree THEN s
  ELSE IF creating > 0 THEN [ CountBurst(s) EXCEPT !.rsvSusp = @ + 1 ]
  ELSE ReserveContinue(CountBurst(s), ts)

\* cancelReservedUpdateCachedTabbar(): << nWaiting, waiting >> afterwards.
cancelReservedUpdateCachedTabbar ==
  IF waiting THEN << IF nWaiting > 0 THEN nWaiting - 1 ELSE 0, FALSE >>
  ELSE << nWaiting, waiting >>

Event(h) == [ h EXCEPT !.events = @ + 1, !.scen = "none" ]

CanEvent == hist.events < MaxEvents

\* ------------------------------------------------------ the environment
startTracking ==
  /\ UNCHANGED << restoreVars, bg >>
  /\ ~mTracking
  /\ mTracking' = TRUE
  /\ UNCHANGED << envVars, mLastWindowCacheOwner, store, nWaiting, waiting, dirtyVars,
                  deferred, rsvSusp, upd, readVars, hist >>

InsertAt(s, i, x) == SubSeq(s, 1, i - 1) \o << x >> \o SubSeq(s, i, Len(s))

\* A tab opens at position i; Tabs.onCreated: wait(0).then(reserveToUpdateCachedTabbar).
CreateTab ==
  /\ UNCHANGED << restoreVars, bg >>
  /\ CanEvent
  /\ nextId <= MaxTabId
  /\ \E i \in (npinned + 1)..(Len(tabs) + 1) :
       /\ tabs' = InsertAt(tabs, i, nextId)
       /\ hist' = [ Event(hist) EXCEPT
                      !.scen = IF hist.scen = "written" /\ i = Len(tabs) + 1
                               THEN "appended" ELSE "none" ]
  /\ nextId' = nextId + 1
  /\ creating' = creating + 1
  /\ deferred' = deferred + 1
  /\ UNCHANGED << npinned, allTabsRestored, useCachedTree, animation, mTracking,
                  mLastWindowCacheOwner, store, nWaiting, waiting, dirtyVars,
                  rsvSusp, upd, readVars >>

\* The creation of a tab resolves; with none left, everything suspended at
\* Tabs.waitUntilAllTabsAreCreated() goes on.
TabCreated ==
  /\ UNCHANGED << restoreVars, bg >>
  /\ creating > 0
  /\ creating' = creating - 1
  /\ IF creating' = 0
     THEN /\ SetSched([ ReserveContinueAll(Sched(hist), tabs, rsvSusp) EXCEPT !.rsvSusp = 0 ])
          /\ upd' = [ i \in 1..Len(upd) |->
                        IF upd[i].pc = "waitCreate" THEN [ upd[i] EXCEPT !.pc = "waitSig" ]
                        ELSE upd[i] ]
     ELSE UNCHANGED << store, nWaiting, waiting, rsvSusp, hist, upd >>
  /\ UNCHANGED << tabs, npinned, nextId, allTabsRestored, useCachedTree, animation,
                  mTracking, mLastWindowCacheOwner, dirtyVars, deferred, readVars >>

\* A tab closes; Tabs.onRemoved reserves only with configs.animation, after the
\* collapse animation.
RemoveTab ==
  /\ UNCHANGED << restoreVars, bg >>
  /\ CanEvent
  /\ \E i \in 1..Len(tabs) :
       /\ tabs' = RemoveAt(tabs, i)
       /\ npinned' = IF i <= npinned THEN npinned - 1 ELSE npinned
       /\ store' = DropTab(store, tabs[i])
  /\ deferred' = IF animation THEN deferred + 1 ELSE deferred
  /\ hist' = Event(hist)
  /\ UNCHANGED << nextId, creating, allTabsRestored, useCachedTree, animation, mTracking,
                  mLastWindowCacheOwner, nWaiting, waiting, dirtyVars, rsvSusp, upd,
                  readVars >>

Zone(i) == IF i <= npinned THEN 1..npinned ELSE (npinned + 1)..Len(tabs)

\* A tab moves; Tabs.onMoved calls reserveToUpdateCachedTabbar at once.
MoveTab ==
  /\ UNCHANGED << restoreVars, bg >>
  /\ CanEvent
  /\ \E i \in 1..Len(tabs) : \E j \in Zone(i) \ { i } :
       /\ tabs' = InsertAt(RemoveAt(tabs, i), j, tabs[i])
       /\ SetSched(reserveToUpdateCachedTabbar(Sched(Event(hist)), tabs'))
  /\ UNCHANGED << npinned, nextId, creating, allTabsRestored, useCachedTree, animation,
                  mTracking, mLastWindowCacheOwner, dirtyVars, deferred, upd, readVars >>

\* The first unpinned tab is pinned, or the last pinned one unpinned;
\* Tabs.onPinned / Tabs.onUnpinned call reserveToUpdateCachedTabbar at once.
PinTab ==
  /\ UNCHANGED << restoreVars, bg >>
  /\ CanEvent
  /\ \/ npinned < Len(tabs) /\ npinned' = npinned + 1
     \/ npinned > 0 /\ npinned' = npinned - 1
  /\ SetSched(reserveToUpdateCachedTabbar(Sched(Event(hist)), tabs))
  /\ UNCHANGED << tabs, nextId, creating, allTabsRestored, useCachedTree, animation,
                  mTracking, mLastWindowCacheOwner, dirtyVars, deferred, upd, readVars >>

\* Tree.onLevelChanged / onAttached / onDetached: wait(0).then(reserveToUpdateCachedTabbar).
TreeEvent ==
  /\ UNCHANGED << restoreVars, bg >>
  /\ CanEvent
  /\ deferred' = deferred + 1
  /\ hist' = Event(hist)
  /\ UNCHANGED << envVars, mTracking, mLastWindowCacheOwner, store, nWaiting, waiting,
                  dirtyVars, rsvSusp, upd, readVars >>

\* A queued listener continuation runs and calls reserveToUpdateCachedTabbar.
DeferredReserve ==
  /\ UNCHANGED << restoreVars, bg >>
  /\ deferred > 0
  /\ deferred' = deferred - 1
  /\ SetSched(reserveToUpdateCachedTabbar(Sched(hist), tabs))
  /\ UNCHANGED << envVars, mTracking, mLastWindowCacheOwner, dirtyVars, upd, readVars >>

\* The restoration code marks the container, or a fresh container replaces it.
SetAllTabsRestored ==
  /\ UNCHANGED << restoreVars, bg >>
  /\ CanEvent
  /\ allTabsRestored' = ~allTabsRestored
  /\ hist' = Event(hist)
  /\ UNCHANGED << tabs, npinned, nextId, creating, useCachedTree, animation, mTracking,
                  mLastWindowCacheOwner, store, nWaiting, waiting, dirtyVars, deferred,
                  rsvSusp, upd, readVars >>

\* configs.useCachedTree changes; onConfigChange observes it once tracking started:
\* switched off it reserves (to no effect), switched on it clears and reloads the sidebar.
ConfigChange ==
  /\ UNCHANGED << restoreVars, bg >>
  /\ CanEvent
  /\ useCachedTree' = ~useCachedTree
  /\ IF mTracking /\ useCachedTree'
     THEN /\ store' = clearWindowCache(store, mLastWindowCacheOwner, tabs)
          /\ mTracking' = FALSE
          /\ mLastWindowCacheOwner' = 0
          /\ nWaiting' = 0
          /\ waiting' = FALSE
          /\ dirtyTimers' = << >>
          /\ dirtyHandle' = FALSE
          /\ deferred' = 0
          /\ rsvSusp' = 0
          /\ upd' = << >>
          /\ rd' = IdleRead
          /\ ret' = NoResult
     ELSE UNCHANGED << store, mTracking, mLastWindowCacheOwner, nWaiting, waiting,
                       dirtyVars, deferred, rsvSusp, upd, readVars >>
  /\ hist' = Event(hist)
  /\ UNCHANGED << tabs, npinned, nextId, creating, allTabsRestored, animation >>

\* ------------------------------------------------------ the dirty flags
\* markWindowCacheDirty(akey): the one timeout handle is cleared and set again.
markWindowCacheDirty(akey) ==
  /\ UNCHANGED << restoreVars, bg >>
  /\ CanEvent
  /\ Len(dirtyTimers) < MaxTimers
  /\ dirtyTimers' =
       Append(IF dirtyHandle /\ Len(dirtyTimers) > 0
              THEN SubSeq(dirtyTimers, 1, Len(dirtyTimers) - 1) ELSE dirtyTimers, akey)
  /\ dirtyHandle' = TRUE
  /\ hist' = [ hist EXCEPT
                 !.events = @ + 1,
                 !.dirtyOpen = @ \cup { akey },
                 !.dirtyBursts[akey] = IF akey \in hist.dirtyOpen THEN @ ELSE @ + 1 ]
  /\ UNCHANGED << envVars, mTracking, mLastWindowCacheOwner, store, nWaiting, waiting,
                  deferred, rsvSusp, upd, readVars >>

MarkDirty == \E akey \in DirtyKeys : markWindowCacheDirty(akey)

\* The timeout of markWindowCacheDirty fires: updateWindowCache(akey, true).
\* It fires the debounce delay after the last call for any key, so every burst
\* under way is over by then.
DirtyFire ==
  /\ UNCHANGED << restoreVars, bg >>
  /\ \E i \in 1..Len(dirtyTimers) :
       /\ dirtyTimers' = RemoveAt(dirtyTimers, i)
       /\ store' = updateWindowCache(store, mLastWindowCacheOwner, tabs, dirtyTimers[i], TRUE)
       /\ hist' = [ hist EXCEPT
                      !.scen = "none",
                      !.dirtyOpen = { },
                      !.dirtyWrites[dirtyTimers[i]] =
                         IF OwnerAlive(mLastWindowCacheOwner, tabs) THEN @ + 1 ELSE @,
                      !.dirtyStale = @ \/ ~OwnerAlive(mLastWindowCacheOwner, tabs) ]
  /\ dirtyHandle' = FALSE
  /\ UNCHANGED << envVars, mTracking, mLastWindowCacheOwner, nWaiting, waiting, deferred,
                  rsvSusp, upd, readVars >>

\* ---------------------------------------------------- updateCachedTabbar
\* The rebuild timeout fires: delete updateCachedTabbar.waiting; updateCachedTabbar()
\* runs to its first await.
UpdateFire ==
  /\ UNCHANGED << restoreVars, bg >>
  /\ nWaiting > 0
  /\ Len(upd) < MaxUpd
  /\ nWaiting' = nWaiting - 1
  /\ waiting' = FALSE
  /\ upd' = IF ~useCachedTree THEN upd
            ELSE Append(upd, [ pc |-> IF creating > 0 THEN "waitCreate" ELSE "waitSig",
                               signature |-> NullSig ])
  /\ UNCHANGED << envVars, mTracking, mLastWindowCacheOwner, store, dirtyVars, deferred,
                  rsvSusp, readVars, hist >>

\* Cache.getWindowSignature(mTargetWindow) is computed for updateCachedTabbar.
UpdateSig ==
  /\ UNCHANGED << restoreVars, bg >>
  /\ \E i \in 1..Len(upd) :
       /\ upd[i].pc = "waitSig"
       /\ upd' = [ upd EXCEPT ![i] = [ pc |-> "gotSig", signature |-> WindowSignature(tabs) ] ]
  /\ UNCHANGED << envVars, mTracking, mLastWindowCacheOwner, store, nWaiting, waiting,
                  dirtyVars, deferred, rsvSusp, readVars, hist >>

SkipsNever == FALSE

\* if (container.allTabsRestored) return;
SkipsRebuild == allTabsRestored

\* getWindowCacheOwner(): the last tab.
getWindowCacheOwner(ts) == LastTab(ts)

\* updateCachedTabbar goes on with the signature: skipped when the container is
\* marked, else the owner becomes the last tab and the snapshot is stored under it.
UpdateWrite ==
  /\ UNCHANGED << restoreVars, bg >>
  /\ \E i \in 1..Len(upd) :
       /\ upd[i].pc = "gotSig"
       /\ upd' = RemoveAt(upd, i)
       /\ IF SkipsRebuild
          THEN /\ hist' = [ hist EXCEPT !.skipped = TRUE ]
               /\ UNCHANGED << mLastWindowCacheOwner, store >>
          ELSE LET owner == getWindowCacheOwner(tabs)
                   snap == Snapshot(kSIDEBAR_CONTENTS_VERSION, SerializedContents(tabs),
                                    npinned, upd[i].signature)
               IN  /\ mLastWindowCacheOwner' = owner
                   /\ store' = updateWindowCache(store, owner, tabs, "snap", snap)
                   /\ hist' = [ hist EXCEPT
                        !.writes = IF OwnerAlive(owner, tabs) THEN @ + 1 ELSE @,
                        !.scen = IF /\ OwnerAlive(owner, tabs)
                                    /\ Len(tabs) = 3
                                    /\ upd[i].signature = WindowSignature(tabs)
                                 THEN "written" ELSE "none" ]
  /\ UNCHANGED << envVars, mTracking, nWaiting, waiting, dirtyVars, deferred, rsvSusp,
                  readVars >>

\* ------------------------------------------------ getEffectiveWindowCache
\* cache.tabs: updateCachedTabbar stores no such field.
HasTabs(cache) == "tabs" \in DOMAIN cache

\* The check of the snapshot against its own contents.
IsBroken(cache, cachedSignature) ==
  /\ cache # NullCache
  /\ HasTabs(cache)
  /\ Truthy(cachedSignature)
  /\ cachedSignature # signatureFromTabsCache(cache.contents)

\* options.ignorePinnedTabs && cache && cache.tabbar && cache.tabbar.contents && cachedSignature
TrimsPinned(ignorePinnedTabs, cache, cachedSignature) ==
  /\ ignorePinnedTabs
  /\ cache # NullCache
  /\ Len(cache.contents) > 0
  /\ Truthy(cachedSignature)

VersionAny(cache) == cache # NullCache

\* cache && cache.version == Constants.kSIDEBAR_CONTENTS_VERSION
VersionOk(cache) == cache # NullCache /\ cache.version = kSIDEBAR_CONTENTS_VERSION

\* The first of the two concurrent parts, from the values fetched on:
\* << cache, cachedSignature, broken >>.
VerifyFetched(entry, ignorePinnedTabs) ==
  LET cache0 == entry.snap
      sig0 == IF cache0 = NullCache THEN NullSig ELSE cache0.signature
      broken == IsBroken(cache0, sig0)
      cache1 == IF broken THEN NullCache ELSE cache0
      sig1 == IF broken THEN NullSig ELSE sig0
      trims == TrimsPinned(ignorePinnedTabs, cache1, sig1)
      cache2 == IF trims
                THEN [ cache1 EXCEPT !.contents = trimTabsCache(@, cache1.pinnedTabsCount) ]
                ELSE cache1
      sig2 == IF trims THEN trimSignature(sig1, cache1.pinnedTabsCount) ELSE sig1
      cache3 == IF VersionOk(cache2)
                THEN [ version |-> cache2.version, contents |-> cache2.contents,
                       pinnedTabsCount |-> cache2.pinnedTabsCount, signature |-> sig2,
                       tabsDirty |-> entry.tabsDirty,
                       collapsedDirty |-> entry.collapsedDirty ]
                ELSE NullCache
  IN  << cache3, sig2, broken >>

ReadFailsWithoutCache(cache, signatureMatched) == cache = NullCache

\* if (!cache || !signatureMatched)
ReadFails(cache, signatureMatched) == cache = NullCache \/ ~signatureMatched

ComputeOffsetUnfiltered(actualSignature, cachedSignature) ==
  Len(Split(Trim(ReplaceFirst(actualSignature, cachedSignature)), NL))

\* actualSignature.replace(cachedSignature, '').trim().split('\n').filter(part => !!part).length
ComputeOffset(actualSignature, cachedSignature) ==
  Len(SelectNonEmpty(Split(Trim(ReplaceFirst(actualSignature, cachedSignature)), NL)))

\* The end of getEffectiveWindowCache, once both parts are done: the store
\* afterwards and the value returned.
Verify2(st, cache, cachedSignature, actualSignature) ==
  LET signatureMatched == matcheSignatures(actualSignature, cachedSignature)
  IN  IF ReadFails(cache, signatureMatched)
      THEN [ store |-> clearWindowCache(st, mLastWindowCacheOwner, tabs),
             cache |-> NullCache, matched |-> signatureMatched ]
      ELSE [ store |-> st,
             cache |-> [ version |-> cache.version, contents |-> cache.contents,
                         pinnedTabsCount |-> cache.pinnedTabsCount,
                         signature |-> cache.signature,
                         tabsDirty |-> cache.tabsDirty,
                         collapsedDirty |-> cache.collapsedDirty,
                         offset |-> ComputeOffset(actualSignature, cachedSignature),
                         actualSignature |-> actualSignature ],
             matched |-> signatureMatched ]

\* The call returns: rd, ret, store and hist afterwards.
Returns(r, st, cache, cachedSignature, actualSignature) ==
  LET v == Verify2(st, cache, cachedSignature, actualSignature)
  IN  /\ store' = v.store
      /\ rd' = IdleRead
      /\ ret' = [ kind |-> IF v.cache = NullCache THEN "null" ELSE "cache",
                  cache |-> v.cache,
                  fetched |-> r.fetched,
                  cachedSignature |-> cachedSignature,
                  actualSignature |-> actualSignature,
                  matched |-> v.matched,
                  ignorePinnedTabs |-> r.ignorePinnedTabs,
                  owner |-> mLastWindowCacheOwner,
                  entryAfter |-> getWindowCache(v.store, mLastWindowCacheOwner),
                  scen |-> (hist.scen = "reading") ]
      /\ hist' = [ hist EXCEPT !.scen = "none" ]

\* The call is rejected with the TypeError of `mLastWindowCacheOwner.id`.
Throws ==
  /\ rd' = IdleRead
  /\ ret' = [ kind |-> "threw" ]

\* getEffectiveWindowCache(options) up to its await: the pending rebuild is
\* cancelled and the two concurrent parts are started.
ReadStart ==
  /\ UNCHANGED << restoreVars, bg >>
  /\ rd.pc = "idle"
  /\ hist.reads < MaxReads
  /\ nWaiting' = cancelReservedUpdateCachedTabbar[1]
  /\ waiting' = cancelReservedUpdateCachedTabbar[2]
  /\ \E ignorePinnedTabs \in BOOLEAN :
       rd' = [ pc |-> "query", ignorePinnedTabs |-> ignorePinnedTabs, key |-> 0,
               fetched |-> EmptyEntry, cache |-> NullCache, cachedSignature |-> NullSig,
               sigDone |-> FALSE, actualSignature |-> NullSig ]
  /\ ret' = NoResult
  /\ hist' = [ hist EXCEPT !.reads = @ + 1,
                           !.scen = IF @ = "appended" THEN "reading" ELSE "none" ]
  /\ UNCHANGED << envVars, mTracking, mLastWindowCacheOwner, store, dirtyVars, deferred,
                  rsvSusp, upd >>

QueriedOwnerKept(apiTabs) ==
  IF mLastWindowCacheOwner # 0 THEN mLastWindowCacheOwner ELSE LastTab(apiTabs)

\* mLastWindowCacheOwner = apiTabs[apiTabs.length - 1]
QueriedOwner(apiTabs) == LastTab(apiTabs)

\* browser.tabs.query answers: the owner becomes the last tab and the three
\* values are asked for under it. Without a tab there is nothing to ask for,
\* and the log line that follows reads the id of no owner.
ReadQuery ==
  /\ UNCHANGED << restoreVars, bg >>
  /\ rd.pc = "query"
  /\ mLastWindowCacheOwner' = QueriedOwner(tabs)
  /\ IF QueriedOwner(tabs) = 0
     THEN Throws
     ELSE /\ rd' = [ rd EXCEPT !.pc = "store", !.key = QueriedOwner(tabs) ]
          /\ ret' = ret
  /\ UNCHANGED << envVars, mTracking, store, nWaiting, waiting, dirtyVars, deferred,
                  rsvSusp, upd, hist >>

\* browser.sessions.getTabValue serves the three reads.
ReadStore ==
  /\ UNCHANGED << restoreVars, bg >>
  /\ rd.pc = "store"
  /\ rd' = [ rd EXCEPT !.pc = "fetched", !.fetched = getWindowCache(store, rd.key) ]
  /\ UNCHANGED << envVars, mTracking, mLastWindowCacheOwner, store, nWaiting, waiting,
                  dirtyVars, deferred, rsvSusp, upd, ret, hist >>

\* The first part goes on with the values fetched; it ends the call when the
\* live signature is there already.
ReadVerify ==
  /\ UNCHANGED << restoreVars, bg >>
  /\ rd.pc = "fetched"
  /\ IF mLastWindowCacheOwner = 0
     THEN Throws /\ UNCHANGED << store, hist >>
     ELSE LET v == VerifyFetched(rd.fetched, rd.ignorePinnedTabs)
              st == IF v[3] THEN clearWindowCache(store, mLastWindowCacheOwner, tabs)
                    ELSE store
          IN  IF rd.sigDone
              THEN Returns(rd, st, v[1], v[2], rd.actualSignature)
              ELSE /\ rd' = [ rd EXCEPT !.pc = "verified", !.cache = v[1],
                                        !.cachedSignature = v[2] ]
                   /\ store' = st
                   /\ hist' = IF v[3] THEN [ hist EXCEPT !.scen = "none" ] ELSE hist
                   /\ ret' = ret
  /\ UNCHANGED << envVars, mTracking, mLastWindowCacheOwner, nWaiting, waiting, dirtyVars,
                  deferred, rsvSusp, upd >>

\* Cache.getWindowSignature(mTargetWindow) is computed for the call; it ends the
\* call when the first part is done already.
ReadSig ==
  /\ UNCHANGED << restoreVars, bg >>
  /\ rd.pc \in { "query", "store", "fetched", "verified" }
  /\ ~rd.sigDone
  /\ IF rd.pc = "verified"
     THEN Returns(rd, store, rd.cache, rd.cachedSignature, WindowSignature(tabs))
     ELSE /\ rd' = [ rd EXCEPT !.sigDone = TRUE, !.actualSignature = WindowSignature(tabs) ]
          /\ UNCHANGED << store, ret, hist >>
  /\ UNCHANGED << envVars, mTracking, mLastWindowCacheOwner, nWaiting, waiting, dirtyVars,
                  deferred, rsvSusp, upd >>

\* ----------------------------------------------------- restoreTabsFromCache
\* currentStructrue.map(item => item.parent).join(',')
JoinParents(parents) ==
  Join([ i \in 1..Len(parents) |-> IntToString(parents[i]) ], << "," >>)

TreeMismatchedInLength(current, master) == Len(current) # Len(master)

\* The comparison of the restored tree with the authoritative one.
TreeMismatched(current, master) == JoinParents(current) # JoinParents(master)

\* restoreTabsFromCache(cache, params) up to its await. With offset <= 0 the
\* container is detached first. Cache.restoreTabsFromCacheInternal either fails
\* (and the call returns false) or attaches a container built from the cached markup.
RestoreStart ==
  /\ rs.pc = "idle"
  /\ rs.calls < MaxRestores
  /\ \E cached \in Structs, offset \in 0..1, collapsedDirty \in BOOLEAN, ok \in BOOLEAN :
       LET detached == IF offset <= 0 THEN "none" ELSE container
       IN  IF ok
           THEN /\ container' = "cached"
                /\ domParents' = cached
                /\ rs' = [ pc |-> "pulling", calls |-> rs.calls + 1, result |-> "none",
                           compared |-> FALSE, collapsedDirty |-> collapsedDirty,
                           edited |-> FALSE ]
           ELSE /\ container' = detached
                /\ domParents' = IF detached = "none" THEN << >> ELSE domParents
                /\ rs' = [ pc |-> "idle", calls |-> rs.calls + 1, result |-> "false",
                           compared |-> FALSE ]
  /\ UNCHANGED << dispatched, cacheVars, bg >>

\* The tree of the live tabs changes while the authoritative structure is awaited.
TreeEdit ==
  /\ rs.pc = "pulling"
  /\ ~rs.edited
  /\ \E edited \in Structs :
       /\ Len(edited) = Len(domParents)
       /\ edited # domParents
       /\ domParents' = edited
  /\ rs' = [ rs EXCEPT !.edited = TRUE ]
  /\ UNCHANGED << container, dispatched, cacheVars, bg >>

\* The authoritative structure arrives: on a mismatch the container is detached
\* and the call returns false; onRestored is dispatched either way.
RestorePulled ==
  /\ rs.pc = "pulling"
  /\ \E master \in Structs :
       LET mismatched == TreeMismatched(domParents, master)
       IN  /\ container' = IF mismatched THEN "none" ELSE container
           /\ domParents' = IF mismatched THEN << >> ELSE domParents
           /\ rs' = [ pc |-> "idle", calls |-> rs.calls,
                      result |-> IF mismatched THEN "false" ELSE "true",
                      compared |-> TRUE, current |-> domParents, master |-> master ]
  /\ dispatched' = dispatched + 1
  /\ UNCHANGED << cacheVars, bg >>

\* browser.runtime.sendMessage rejects: the error is logged and thrown again.
RestorePullFails ==
  /\ rs.pc = "pulling"
  /\ rs' = [ pc |-> "idle", calls |-> rs.calls, result |-> "threw", compared |-> FALSE ]
  /\ UNCHANGED << container, domParents, dispatched, cacheVars, bg >>

\* --------------------------------- background/index.js: the tree structures
\* The pages a tab of a window can show: title and url.
Pages == { [ title |-> << "A" >>, url |-> << "a" >> ],
           [ title |-> << "B" >>, url |-> << "b" >> ] }

\* The tabs browser.windows.get reports for window w showing pages ps.
ApiTabs(w, ps) ==
  [ i \in 1..Len(ps) |->
      [ id |-> 10 * w + i, audible |-> FALSE, incognito |-> FALSE, pinned |-> FALSE,
        title |-> ps[i].title, url |-> ps[i].url ] ]

\* getTabsSignatureSource(aApiTabs): five fields of every tab; not its id.
getTabsSignatureSource(aApiTabs) ==
  [ i \in 1..Len(aApiTabs) |->
      [ audible |-> aApiTabs[i].audible, incognito |-> aApiTabs[i].incognito,
        pinned |-> aApiTabs[i].pinned, title |-> aApiTabs[i].title,
        url |-> aApiTabs[i].url ] ]

BoolToString(b) == IF b THEN << "t", "r", "u", "e" >> ELSE << "f", "a", "l", "s", "e" >>

\* JSON.stringify of a signature source: the objects of the array, their
\* values in the order of the keys.
JSONstringify(src) ==
  << "[" >> \o
  Join([ i \in 1..Len(src) |->
           << "{" >> \o
           Join(<< BoolToString(src[i].audible), BoolToString(src[i].incognito),
                   BoolToString(src[i].pinned), src[i].title, src[i].url >>, << "," >>)
           \o << "}" >> ], << "," >>)
  \o << "]" >>

\* md5(string): a digest, taken to be free of collisions on the strings of the model.
md5(str) == << "md5:" >> \o str

\* getTabsSignature(aApiTabs)
getTabsSignature(aApiTabs) == md5(JSONstringify(getTabsSignatureSource(aApiTabs)))

\* Object.keys(gTreeStructures).forEach(...): the ids in ascending order, each
\* entry stored under its signature, a later one replacing an earlier one.
RECURSIVE Sanitize(_, _, _)
Sanitize(g, w, acc) ==
  IF w > MaxWindows THEN acc
  ELSE IF g[w] = None THEN Sanitize(g, w + 1, acc)
  ELSE Sanitize(g, w + 1,
                { e \in acc : e.signature # g[w].signature } \cup { g[w] })

\* sanitizedStructure, as built from gTreeStructures.
sanitizedStructure(g) == Sanitize(g, 1, { })

\* structures[signature]: the entry stored under the signature, or None.
Lookup(structures, signature) ==
  IF \E e \in structures : e.signature = signature
  THEN CHOOSE e \in structures : e.signature = signature
  ELSE None

\* The parent columns of the trees of n tabs: a tab has no parent (-1) or an
\* earlier tab (counted from 0) as its parent.
TreesOf(n) == { p \in [ 1..n -> -1..MaxParent ] : \A i \in 1..n : p[i] < i - 1 }

\* A window opens and gets its tabs container: the background page tracks its
\* tabs and tree. The browser hands out the ids of windows in order, each once.
BgOpenWindow ==
  /\ bg.nextWindow <= MaxWindows
  /\ \E n \in 0..MaxBgTabs :
       \E ps \in [ 1..n -> Pages ], parents \in TreesOf(n) :
         bg' = [ bg EXCEPT !.wins[bg.nextWindow] =
                             [ open |-> TRUE, tabs |-> ApiTabs(bg.nextWindow, ps),
                               parents |-> parents ],
                           !.nextWindow = @ + 1 ]
  /\ UNCHANGED << cacheVars, restoreVars >>

\* The tabs container of a window is removed (the window has closed).
BgRemoveContainer ==
  /\ \E w \in Windows :
       /\ bg.wins[w].open
       /\ bg' = [ bg EXCEPT !.wins[w] = NoWindow ]
  /\ UNCHANGED << cacheVars, restoreVars >>

\* saveTreeStructure(aWindowId) up to its await: without a container the entry
\* of the window is deleted and configs.treeStructure built anew; with one,
\* browser.windows.get is awaited.
SaveStart ==
  /\ bg.saves < MaxSaves
  /\ \E w \in Windows :
       IF ~bg.wins[w].open
       THEN LET g == [ bg.gTreeStructures EXCEPT ![w] = None ]
            IN  bg' = [ bg EXCEPT !.gTreeStructures = g,
                                  !.treeStructure = sanitizedStructure(g),
                                  !.saves = @ + 1 ]
       ELSE /\ w \notin bg.saving
            /\ bg' = [ bg EXCEPT !.saving = @ \cup { w }, !.saves = @ + 1 ]
  /\ UNCHANGED << cacheVars, restoreVars >>

\* browser.windows.get answers: the entry of the window is its signature and
\* its tree, and configs.treeStructure is built anew. For a window that has
\* closed in between the call is rejected and nothing is saved.
SaveGot ==
  /\ \E w \in bg.saving :
       IF ~bg.wins[w].open
       THEN bg' = [ bg EXCEPT !.saving = @ \ { w } ]
       ELSE LET entry == [ signature |-> getTabsSignature(bg.wins[w].tabs),
                           structure |-> bg.wins[w].parents ]
                g == [ bg.gTreeStructures EXCEPT ![w] = entry ]
            IN  bg' = [ bg EXCEPT !.saving = @ \ { w },
                                  !.gTreeStructures = g,
                                  !.treeStructure = sanitizedStructure(g) ]
  /\ UNCHANGED << cacheVars, restoreVars >>

\* loadTreeStructure() up to its await: configs.treeStructure is read.
LoadStart ==
  /\ bg.load.pc = "idle"
  /\ bg.load.calls < MaxLoads
  /\ bg' = [ bg EXCEPT !.load = [ pc |-> "windows", calls |-> @.calls + 1,
                                  structures |-> bg.treeStructure ] ]
  /\ UNCHANGED << cacheVars, restoreVars >>

\* browser.windows.getAll answers: every window whose signature has a structure
\* gets that structure applied.
LoadApply ==
  /\ bg.load.pc = "windows"
  /\ bg' = [ bg EXCEPT
               !.load = [ pc |-> "idle", calls |-> @.calls, structures |-> { } ],
               !.applied = [ w \in Windows |->
                   IF bg.wins[w].open
                   THEN Lookup(bg.load.structures, getTabsSignature(bg.wins[w].tabs))
                   ELSE bg.applied[w] ] ]
  /\ UNCHANGED << cacheVars, restoreVars >>

\* ------------------------------------------------------- specification
Next ==
  \/ startTracking
  \/ CreateTab
  \/ TabCreated
  \/ RemoveTab
  \/ MoveTab
  \/ PinTab
  \/ TreeEvent
  \/ DeferredReserve
  \/ SetAllTabsRestored
  \/ ConfigChange
  \/ UpdateFire
  \/ UpdateSig
  \/ UpdateWrite
  \/ ReadStart
  \/ ReadQuery
  \/ ReadStore
  \/ ReadVerify
  \/ ReadSig

Spec == Init /\ [][Next]_vars

NextRestore ==
  \/ RestoreStart
  \/ TreeEdit
  \/ RestorePulled
  \/ RestorePullFails

SpecRestore == Init /\ [][NextRestore]_vars

\* The dirty flags, with a read (which sets the owner) and the closing of tabs.
NextDirty ==
  \/ MarkDirty
  \/ DirtyFire
  \/ RemoveTab
  \/ ReadStart
  \/ ReadQuery
  \/ ReadStore
  \/ ReadVerify
  \/ ReadSig

SpecDirty == Init /\ [][NextDirty]_vars

\* The background page saving and loading tree structures.
NextTree ==
  \/ BgOpenWindow
  \/ BgRemoveContainer
  \/ SaveStart
  \/ SaveGot
  \/ LoadStart
  \/ LoadApply

SpecTree == Init /\ [][NextTree]_vars

\* ---------------------------------------------------------------- claims
\* The last call of getEffectiveWindowCache returned (a value or null).
Returned == ret.kind \in { "null", "cache" }

\* The snapshot the last call fetched from the store.
Fetched == ret.fetched.snap

\* The records of a signature, in order.
Records(sig) == IF Len(sig) = 0 THEN << >> ELSE Split(sig, NL)

\* C1 (version gate): a call of getEffectiveWindowCache that fetched a snapshot
\* whose version is not kSIDEBAR_CONTENTS_VERSION returns null, and when it has
\* returned neither a snapshot nor a dirty flag is stored under the owner, also
\* when the recorded signature equals the live one.
C1_VersionGate ==
  (Returned /\ Fetched # NullCache /\ Fetched.version # kSIDEBAR_CONTENTS_VERSION)
    => (ret.kind = "null" /\ ret.entryAfter = EmptyEntry)

\* A call that fetched a snapshot of another version, with both dirty flags set and
\* a recorded signature equal to the live one, has returned null.
C1_Witness ==
  /\ Returned
  /\ Fetched # NullCache
  /\ Fetched.version # kSIDEBAR_CONTENTS_VERSION
  /\ Fetched.signature = ret.actualSignature
  /\ ret.fetched.tabsDirty
  /\ ret.fetched.collapsedDirty
  /\ ret.kind = "null"

\* C2 (signature gate): getEffectiveWindowCache returns a cache only when
\* matcheSignatures holds of the live and the cached signature; on a mismatch it
\* returns null, and neither a snapshot nor a dirty flag is then stored under the owner.
C2_SignatureGate ==
  Returned =>
    /\ ret.kind = "cache" => matcheSignatures(ret.actualSignature, ret.cachedSignature)
    /\ ~matcheSignatures(ret.actualSignature, ret.cachedSignature)
         => (ret.kind = "null" /\ ret.entryAfter = EmptyEntry)

\* A call that fetched a snapshot of the current version whose signature lists the
\* live tabs in another order has returned null.
C2_Witness ==
  /\ Returned
  /\ Fetched # NullCache
  /\ Fetched.version = kSIDEBAR_CONTENTS_VERSION
  /\ Truthy(ret.cachedSignature)
  /\ Range(Records(ret.cachedSignature)) = Range(Records(ret.actualSignature))
  /\ Len(Records(ret.cachedSignature)) = Len(Records(ret.actualSignature))
  /\ ret.cachedSignature # ret.actualSignature
  /\ ret.kind = "null"

\* C3 (corruption rejection), as claimed: a call that fetched a snapshot whose
\* recorded signature is not the signature of its own contents returns null and
\* leaves nothing stored under the owner.
C3_CorruptionRejected ==
  (Returned /\ Fetched # NullCache
     /\ Fetched.signature # signatureFromTabsCache(Fetched.contents))
    => (ret.kind = "null" /\ ret.entryAfter = EmptyEntry)

C5_OffsetCountsRecords ==
  (ret.kind = "cache"
     /\ IsPrefixOf(Records(ret.cachedSignature), Records(ret.actualSignature)))
    => /\ ret.cache.offset >= 0
       /\ ret.cache.offset =
            Len(Records(ret.actualSignature)) - Len(Records(ret.cachedSignature))

\* A call with ignorePinnedTabs has returned a cache for live tabs that extend the
\* cached ones by one record (of more than one character).
C5_Witness ==
  /\ ret.kind = "cache"
  /\ ret.ignorePinnedTabs
  /\ IsPrefixOf(Records(ret.cachedSignature), Records(ret.actualSignature))
  /\ Len(Records(ret.actualSignature)) = Len(Records(ret.cachedSignature)) + 1
  /\ Len(ret.actualSignature) > Len(ret.cachedSignature) + 2
  /\ ret.cache.offset = 1

\* C6 (soft failure), as claimed: no call of getEffectiveWindowCache throws.
C6_NeverThrows == ret.kind # "threw"

\* C7 (restoration rollback): a call of restoreTabsFromCache that compared a tree
\* of the live tabs differing from the authoritative one returned false, and no
\* container built from the cache is attached.
C7_Rollback ==
  (rs.pc = "idle" /\ rs.compared /\ rs.current # rs.master)
    => (rs.result = "false" /\ container # "cached")

\* A call found trees of the same length that differ at one position, and
\* returned false.
C7_Witness ==
  /\ rs.pc = "idle"
  /\ rs.compared
  /\ Len(rs.current) = Len(rs.master)
  /\ rs.current # rs.master
  /\ rs.result = "false"
  /\ container = "none"

\* C8 (debounce coalescing), as claimed: the calls of a burst (each made before
\* the timer armed by the one before has fired) lead to one write: never more
\* snapshot writes than bursts.
C8_OneWritePerBurst == hist.writes <= hist.bursts

\* C9 (read/write exclusion), as claimed: while a call of getEffectiveWindowCache
\* is in progress, no step other than its own and the closing of a tab changes
\* the store.
C9_NoStoreChangeDuringRead ==
  [][ (rd.pc # "idle" /\ rd' = rd /\ Range(tabs) \subseteq Range(tabs'))
        => store' = store ]_vars

\* A snapshot is stored in this step.
SnapshotWritten ==
  \/ hist'.writes > hist.writes
  \/ \E t \in TabIds : store'[t].snap # NullCache /\ store'[t].snap # store[t].snap

\* An invocation of updateCachedTabbar ends in this step.
RebuildEnds == Len(upd') < Len(upd) /\ mTracking' = mTracking

\* C10 (no snapshot during restore): a rebuild that ends while the container is
\* marked allTabsRestored changes neither the store nor the owner, and no step
\* taken while it is marked stores a snapshot.
C10_NoSnapshotDuringRestore ==
  [][ /\ (RebuildEnds /\ allTabsRestored)
           => (store' = store /\ mLastWindowCacheOwner' = mLastWindowCacheOwner)
      /\ SnapshotWritten => ~allTabsRestored ]_vars

\* A rebuild was skipped, the container is marked, and the store holds no snapshot.
C10_Witness ==
  /\ hist.skipped
  /\ allTabsRestored
  /\ hist.writes = 0
  /\ \A t \in TabIds : store[t].snap = NullCache

\* The owner a step's store operations go to: the last tab for a rebuild that
\* writes (it assigns the owner first), else the owner handle as it is.
StoreOwner ==
  IF RebuildEnds /\ ~allTabsRestored THEN mLastWindowCacheOwner' ELSE mLastWindowCacheOwner

\* The owner handle is absent or refers to a tab that no longer exists.
Stale(owner, ts) == owner = 0 \/ owner \notin Range(ts)

\* C11 (stale-owner no-op): a step whose store operations go to an absent owner
\* or to one whose tab no longer exists leaves the whole store unchanged; a
\* dropped write of a timeout queues nothing that would repeat it; and clearing
\* under an owner that holds nothing changes nothing.
C11_StaleOwnerNoOp ==
  [][ /\ (Range(tabs') = Range(tabs) /\ Stale(StoreOwner, tabs')) => store' = store
      /\ (Len(dirtyTimers') < Len(dirtyTimers) /\ Stale(mLastWindowCacheOwner, tabs))
           => (nWaiting' = nWaiting /\ deferred' = deferred
               /\ Len(dirtyTimers') = Len(dirtyTimers) - 1)
      /\ \A o \in TabIds :
           store[o] = EmptyEntry => clearWindowCache(store, o, tabs) = store ]_vars

\* The write of a dirty flag was dropped: the owner refers to a closed tab, and
\* nothing is stored under it.
C11_Witness ==
  /\ hist.dirtyStale
  /\ mLastWindowCacheOwner # 0
  /\ mLastWindowCacheOwner \notin Range(tabs)
  /\ store[mLastWindowCacheOwner] = EmptyEntry
  /\ dirtyTimers = << >>

\* A call of restoreTabsFromCache ends in this step.
RestoreEnds == rs.pc # "idle" /\ rs'.pc = "idle"

\* C12 (restored notification only on success), as claimed: onRestored is
\* dispatched in the step that ends a call of restoreTabsFromCache only when the
\* call returns true, and every call that returns true dispatches it once.
C12_DispatchOnlyOnSuccess ==
  [][ /\ dispatched' # dispatched => (RestoreEnds /\ rs'.result = "true")
      /\ (RestoreEnds /\ rs'.result = "true") => dispatched' = dispatched + 1 ]_vars

\* The tabs of the window that carry a stored snapshot.
SnapshotTabs == { t \in Range(tabs) : store[t].snap # NullCache }

\* C13 (single snapshot per window), as claimed: at most one tab of the window
\* carries a stored snapshot.
C13_SingleSnapshot == Cardinality(SnapshotTabs) <= 1

\* C14 (clear before rebuild), as claimed: while the rebuild timer is armed,
\* neither a snapshot nor a dirty flag is stored under the owner handle.
C14_ClearedWhilePending ==
  (waiting /\ nWaiting > 0) => getWindowCache(store, mLastWindowCacheOwner) = EmptyEntry

\* C16 (dirty-flag debounce), as claimed: once no timeout is pending, and no
\* write was dropped for want of a living owner, every burst of
\* markWindowCacheDirty calls for a key has led to one write of true for that key.
C16_OneWritePerKeyBurst ==
  (dirtyTimers = << >> /\ ~hist.dirtyStale)
    => \A k \in DirtyKeys : hist.dirtyWrites[k] = hist.dirtyBursts[k]

\* A call of getEffectiveWindowCache returns in this step.
ReadEnds == rd.pc # "idle" /\ rd'.pc = "idle" /\ ret'.kind \in { "null", "cache" }

\* The step in which a call of getEffectiveWindowCache assigns the owner.
ReadAssignsOwner == rd.pc = "query" /\ rd'.pc # "query"

\* The sidebar is loaded anew: the module state starts over.
Reloads == mTracking /\ ~mTracking'

\* C15 (owner handle discipline), as claimed: the owner handle changes only in
\* getEffectiveWindowCache and in a rebuild that writes, and the clear that ends
\* a call of getEffectiveWindowCache goes to the owner its three reads went to.
C15_OwnerDiscipline ==
  [][ /\ mLastWindowCacheOwner' # mLastWindowCacheOwner
           => (ReadAssignsOwner \/ (RebuildEnds /\ ~allTabsRestored) \/ Reloads)
      /\ (ReadEnds /\ ret'.kind = "null") => mLastWindowCacheOwner = rd.key ]_vars

\* The kinds of structural mutation a step can be.
Removed == Len(tabs') < Len(tabs)
Created == Len(tabs') > Len(tabs)
Moved == Len(tabs') = Len(tabs) /\ tabs' # tabs
PinChanged == tabs' = tabs /\ npinned' # npinned
TreeChanged ==
  /\ hist'.events = hist.events + 1
  /\ UNCHANGED << tabs, npinned, allTabsRestored, useCachedTree, dirtyTimers >>

\* A continuation that will call reserveToUpdateCachedTabbar is queued in this step.
Queued == deferred' = deferred + 1

\* reserveToUpdateCachedTabbar is called in this step: it waits for the tabs
\* being created, or returns for a marked container, or arms the timer.
CalledNow ==
  \/ rsvSusp' = rsvSusp + 1
  \/ allTabsRestored
  \/ waiting' /\ nWaiting' > 0

\* C17 (every structural mutation schedules a rebuild), as claimed: with
\* tracking started and the cache enabled, a tab creation, a tab removal and a
\* tree event queue a call of reserveToUpdateCachedTabbar, and a move and a
\* pin or unpin call it at once, whatever configs.animation is.
C17_EveryMutationReserves ==
  [][ (mTracking /\ useCachedTree)
        => /\ (Removed \/ Created \/ TreeChanged) => Queued
           /\ (Moved \/ PinChanged) => CalledNow ]_vars

\* Nothing is pending: no timer, no rebuild, no queued or waiting call, no tab
\* being created, no read; reservations were made, and neither a read nor a
\* marked container has interfered in the run.
Quiescent ==
  /\ mTracking /\ useCachedTree /\ ~allTabsRestored
  /\ hist.bursts > 0 /\ hist.reads = 0 /\ ~hist.skipped
  /\ nWaiting = 0 /\ ~waiting /\ upd = << >>
  /\ deferred = 0 /\ rsvSusp = 0 /\ creating = 0

\* The store holds a snapshot whose signature is that of the live tabs.
FreshSnapshotStored ==
  \E t \in TabIds :
    store[t].snap # NullCache /\ store[t].snap.signature = WindowSignature(tabs)

\* C18 (eventual fresh snapshot), as claimed: once the mutation events are over
\* and everything pending has run, the store holds a snapshot with the signature
\* of the live tabs, also in a window without tabs.
C18_FreshAfterQuiescence == Quiescent => FreshSnapshotStored

\* C19 (snapshot self-consistency), as claimed: the signature recorded in every
\* stored snapshot is the signature of the tabs in its contents, and its
\* pinnedTabsCount is not more than the tabs in its contents.
C19_SnapshotSelfConsistent ==
  \A t \in TabIds :
    store[t].snap # NullCache
      => /\ store[t].snap.signature = signatureFromTabsCache(store[t].snap.contents)
         /\ store[t].snap.pinnedTabsCount <= Len(store[t].snap.contents)

\* What saveTreeStructure last saved for window w, if its entry stands.
SavedFor(w) == bg.gTreeStructures[w]

\* C20 (tree-structure store keyed by signature), as claimed: for every window
\* with a tabs container and a saved entry, configs.treeStructure maps the
\* signature of the window's tabs to the structure saved for that window, and
\* loadTreeStructure has applied to a window no structure but the one saved for it.
C20_StructureOfOwnWindow ==
  \A w \in Windows :
    (bg.wins[w].open /\ bg.gTreeStructures[w] # None)
      => /\ Lookup(bg.treeStructure, getTabsSignature(bg.wins[w].tabs)) = SavedFor(w)
         /\ (bg.load.calls > 0 /\ bg.load.pc = "idle" /\ bg.applied[w] # None)
              => bg.applied[w] = SavedFor(w)

====
